---- MODULE Spec2Model ----
(***************************************************************************)
(* A model of ohabenchmark's ramping run: the rate sequence (config.rs),   *)
(* the step classifier and the run summary (analysis.rs) and the per-URL   *)
(* step loop of run_benchmark_suite (main.rs).                             *)
(*                                                                         *)
(* Numbers.  u32/u64 fields are integers.  f64 fields are fixed-point      *)
(* integers: rates in requests/second, latencies in milliseconds, error    *)
(* rates and throughput percentages in percent.  A comparison against a    *)
(* scaled threshold (x > t * 0.5, x > t * 0.7) is evaluated exactly by     *)
(* cross-multiplying; the drawn values are integers for which the f64      *)
(* comparison of the source gives the same truth value.                    *)
(*                                                                         *)
(* Option<u32> is a sequence of length at most one: None == << >>,         *)
(* Some(x) == <<x>>.                                                       *)
(***************************************************************************)
EXTENDS Integers, Sequences, FiniteSets, TLC

VARIABLES
    config,           \* BenchmarkConfig, read-only during one run
    pc,               \* position of the running function
    rates,            \* run_benchmark_suite: let rates
    url_idx,          \* run_benchmark_suite: index of the URL being processed
    i,                \* index of the current iteration (1-based)
    results,          \* Vec<BenchmarkResult> of the current URL / summary input
    analyses,         \* Vec<AnalysisResult> of the current URL / summary input
    all_url_results,  \* run_benchmark_suite: Vec<UrlBenchmarkResults>
    scan,             \* generate_summary: the mutable locals of the scan loop
    summary,          \* the BenchmarkSummary returned last (Option)
    result,           \* analyze_result: argument
    analysis,         \* analyze_result: returned value (Option)
    gen,              \* generate_rates: the locals of its loop (Option)
    overflow_checks,  \* the build: TRUE when integer overflow panics
    live,             \* number of external processes started and still alive
    output,           \* parse_oha_output: the output of a process (Option)
    trace             \* history of the external effects of the run

vars == <<config, pc, rates, url_idx, i, results, analyses, all_url_results,
          scan, summary, result, analysis, gen, overflow_checks, live,
          output, trace>>

None == << >>

Some(x) == <<x>>

----------------------------------------------------------------------------
(* analysis.rs: StepStatus, BreakReason, AnalysisResult *)

StepStatus == {"Ok", "Warning", "Break", "RateLimited", "Blocked", "Hung", "Gone"}

\* A BreakReason is a tag with the f64 payload of the variant (0 when the
\* variant carries none).
BreakReason(tag, val) == [tag |-> tag, val |-> val]

ReasonNone == BreakReason("None", 0)

AnalysisResult(status, reason) == [status |-> status, break_reason |-> reason]

----------------------------------------------------------------------------
(* runner.rs: BenchmarkResult and its Default *)

DefaultResult ==
    [target_rate        |-> 0,
     actual_rate        |-> 0,
     avg_latency_ms     |-> 0,
     p50_latency_ms     |-> 0,
     p90_latency_ms     |-> 0,
     p99_latency_ms     |-> 0,
     max_latency_ms     |-> 0,
     total_requests     |-> 0,
     errors             |-> 0,
     error_rate         |-> 0,
     transfer_rate      |-> "",
     error_status_codes |-> << >>,
     hung               |-> FALSE]

\* Variant: the synthetic result does not carry the rate.
HungResult_no_rate(rate) ==
    [DefaultResult EXCEPT !.hung = TRUE, !.error_rate = 100]

\* runner.rs run_benchmark, the None arm of wait_timeout: the synthetic
\* result of a step whose process did not exit within the bound.
HungResult(rate) ==
    [DefaultResult EXCEPT !.target_rate = rate, !.hung = TRUE, !.error_rate = 100]

----------------------------------------------------------------------------
(* config.rs: ThresholdConfig *)

ThresholdConfig(max_error_rate, max_p99_ms) ==
    [max_error_rate |-> max_error_rate, max_p99_ms |-> max_p99_ms]

----------------------------------------------------------------------------
(* analysis.rs: get_dominant_error_status, analyze_result *)

\* Variant: the last entry decides instead of the first.
get_dominant_error_status_last(r) ==
    IF Len(r.error_status_codes) = 0
    THEN None
    ELSE Some(r.error_status_codes[Len(r.error_status_codes)][1])

\* The first entry's code, None for an empty list.
get_dominant_error_status(r) ==
    IF Len(r.error_status_codes) = 0
    THEN None
    ELSE Some(r.error_status_codes[1][1])

\* (actual_rate / target as f64) * 100.0, for target_rate > 0.
ActualPct(r) == (r.actual_rate * 100) \div r.target_rate

\* The conditions of the decision list, in source order.
IsHung(r) == r.hung

IsGone(r) ==
    r.p99_latency_ms = 0 /\ r.avg_latency_ms = 0 /\ r.actual_rate > 0

ErrorRateExceeded(r, th) == r.error_rate > th.max_error_rate

P99Exceeded(r, th) == r.p99_latency_ms > th.max_p99_ms

\* Variant: throughput is judged only when a rate was measured.
ThroughputDegraded_when_measured(r) ==
    r.target_rate > 0 /\ r.actual_rate > 0 /\ ActualPct(r) < 70

\* actual_pct < 70.0 && target_rate > 0.  With target_rate = 0 the f64
\* quotient is inf or NaN and the conjunction is false.
ThroughputDegraded(r) == r.target_rate > 0 /\ ActualPct(r) < 70

\* error_rate > max_error_rate * 0.5 || p99 > max_p99_ms as f64 * 0.7
NearThreshold(r, th) ==
    \/ 2 * r.error_rate > th.max_error_rate
    \/ 10 * r.p99_latency_ms > 7 * th.max_p99_ms

ErrorRateOutcome(r) ==
    LET dom == get_dominant_error_status(r) IN
    IF dom = Some(429)
    THEN AnalysisResult("RateLimited", BreakReason("RateLimited", r.error_rate))
    ELSE IF dom = Some(403)
    THEN AnalysisResult("Blocked", BreakReason("Blocked", r.error_rate))
    ELSE AnalysisResult("Break", BreakReason("ErrorRate", r.error_rate))

\* Variant: the no-response check runs before the hang check.
analyze_result_gone_first(r, th) ==
    IF IsGone(r)
    THEN AnalysisResult("Gone", BreakReason("NoResponses", 0))
    ELSE IF IsHung(r)
    THEN AnalysisResult("Hung", BreakReason("Hung", 0))
    ELSE IF ErrorRateExceeded(r, th)
    THEN ErrorRateOutcome(r)
    ELSE IF P99Exceeded(r, th)
    THEN AnalysisResult("Break", BreakReason("P99Latency", r.p99_latency_ms))
    ELSE IF ThroughputDegraded(r)
    THEN AnalysisResult("Break", BreakReason("ThroughputDegradation", ActualPct(r)))
    ELSE IF NearThreshold(r, th)
    THEN AnalysisResult("Warning", ReasonNone)
    ELSE AnalysisResult("Ok", ReasonNone)

\* Variant: the latency check runs before the error-rate check.
analyze_result_latency_first(r, th) ==
    IF IsHung(r)
    THEN AnalysisResult("Hung", BreakReason("Hung", 0))
    ELSE IF IsGone(r)
    THEN AnalysisResult("Gone", BreakReason("NoResponses", 0))
    ELSE IF P99Exceeded(r, th)
    THEN AnalysisResult("Break", BreakReason("P99Latency", r.p99_latency_ms))
    ELSE IF ErrorRateExceeded(r, th)
    THEN ErrorRateOutcome(r)
    ELSE IF ThroughputDegraded(r)
    THEN AnalysisResult("Break", BreakReason("ThroughputDegradation", ActualPct(r)))
    ELSE IF NearThreshold(r, th)
    THEN AnalysisResult("Warning", ReasonNone)
    ELSE AnalysisResult("Ok", ReasonNone)

analyze_result(r, th) ==
    IF IsHung(r)
    THEN AnalysisResult("Hung", BreakReason("Hung", 0))
    ELSE IF IsGone(r)
    THEN AnalysisResult("Gone", BreakReason("NoResponses", 0))
    ELSE IF ErrorRateExceeded(r, th)
    THEN ErrorRateOutcome(r)
    ELSE IF P99Exceeded(r, th)
    THEN AnalysisResult("Break", BreakReason("P99Latency", r.p99_latency_ms))
    ELSE IF ThroughputDegraded(r)
    THEN AnalysisResult("Break", BreakReason("ThroughputDegradation", ActualPct(r)))
    ELSE IF NearThreshold(r, th)
    THEN AnalysisResult("Warning", ReasonNone)
    ELSE AnalysisResult("Ok", ReasonNone)

----------------------------------------------------------------------------
(* config.rs: RampingConfig, BenchmarkConfig and their Default *)

RampingConfig(mode, start_rate, max_rate, step, duration_seconds) ==
    [mode |-> mode, start_rate |-> start_rate, max_rate |-> max_rate,
     step |-> step, duration_seconds |-> duration_seconds]

\* The fields of BenchmarkConfig the run reads; urls is the number of URLs.
DefaultConfig ==
    [urls             |-> 0,
     ramping          |-> RampingConfig("Linear", 50, 5000, 50, 30),
     thresholds       |-> ThresholdConfig(5, 3000),
     warmup_seconds   |-> 0,
     cooldown_seconds |-> 0]

----------------------------------------------------------------------------
(* Specification SpecAnalyze: analyze_result applied to a drawn result *)

\* error_status_codes as the parser leaves it: (code, count) entries in
\* non-increasing order of count.
AnalyzeCodeLists ==
    { << >>,
      << <<429, 50>> >>,
      << <<403, 50>> >>,
      << <<500, 50>> >>,
      << <<429, 50>>, <<500, 10>> >>,
      << <<500, 50>>, <<429, 10>> >>,
      << <<403, 50>>, <<429, 50>> >>,
      << <<500, 50>>, <<403, 10>> >>,
      << <<0, 7>> >> }

AnalyzeThresholds == {ThresholdConfig(5, 3000), ThresholdConfig(10, 1000)}

AnalyzeInputs ==
    { [DefaultResult EXCEPT
          !.hung = h, !.target_rate = t, !.actual_rate = a,
          !.avg_latency_ms = avg, !.p99_latency_ms = p99,
          !.error_rate = er, !.error_status_codes = codes] :
        h \in BOOLEAN, t \in {0, 100}, a \in {0, 69, 70, 100},
        avg \in {0, 50},
        p99 \in {0, 700, 701, 1001, 2100, 2101, 3000, 3001},
        er \in {0, 2, 3, 5, 6, 10, 11, 100},
        codes \in AnalyzeCodeLists }

InitAnalyze ==
    /\ \E th \in AnalyzeThresholds : config = [DefaultConfig EXCEPT !.thresholds = th]
    /\ result \in AnalyzeInputs
    /\ analysis = None
    /\ pc = "analyze"
    /\ rates = << >>
    /\ url_idx = 0
    /\ i = 0
    /\ results = << >>
    /\ analyses = << >>
    /\ all_url_results = << >>
    /\ scan = None
    /\ summary = None
    /\ gen = None
    /\ overflow_checks = FALSE
    /\ live = 0
    /\ output = None
    /\ trace = << >>

Analyze ==
    /\ pc = "analyze"
    /\ analysis' = Some(analyze_result(result, config.thresholds))
    /\ pc' = "analyzed"
    /\ UNCHANGED <<config, rates, url_idx, i, results, analyses,
                   all_url_results, scan, summary, result,
                   gen, overflow_checks, live, trace, output>>

NextAnalyze == Analyze

SpecAnalyze == InitAnalyze /\ [][NextAnalyze]_vars

----------------------------------------------------------------------------
(* analysis.rs: generate_summary *)

\* The matches! of lines 105-112.
IsTerminal(status) ==
    status \in {"Break", "RateLimited", "Blocked", "Hung", "Gone"}

\* The mutable locals of generate_summary before the loop (lines 98-102).
\* idx is the 1-based index of the next element of analyses; broke records
\* that the loop was left by its break.
ScanInit ==
    [idx                 |-> 1,
     broke               |-> FALSE,
     breaking_point_rate |-> None,
     break_reason        |-> ReasonNone,
     last_stable_rate    |-> None,
     was_rate_limited    |-> FALSE,
     was_blocked         |-> FALSE]

ScanDone(st, as) == st.broke \/ st.idx > Len(as)

\* Variant: the terminal arm does not leave the loop.
ScanBody_no_break(st, rs, as) ==
    LET k == st.idx
        a == as[k]
    IN  IF IsTerminal(a.status)
        THEN [st EXCEPT
                !.breaking_point_rate = Some(rs[k].target_rate),
                !.break_reason = a.break_reason,
                !.was_rate_limited = (a.status = "RateLimited"),
                !.was_blocked = (a.status = "Blocked"),
                !.last_stable_rate =
                    IF k > 1 THEN Some(rs[k - 1].target_rate) ELSE @,
                !.idx = k + 1]
        ELSE IF a.status = "Ok"
        THEN [st EXCEPT !.last_stable_rate = Some(rs[k].target_rate),
                        !.idx = k + 1]
        ELSE [st EXCEPT !.idx = k + 1]

\* Variant: the terminal arm leaves last_stable_rate at the last Ok step.
ScanBody_keep_last_ok(st, rs, as) ==
    LET k == st.idx
        a == as[k]
    IN  IF IsTerminal(a.status)
        THEN [st EXCEPT
                !.breaking_point_rate = Some(rs[k].target_rate),
                !.break_reason = a.break_reason,
                !.was_rate_limited = (a.status = "RateLimited"),
                !.was_blocked = (a.status = "Blocked"),
                !.broke = TRUE]
        ELSE IF a.status = "Ok"
        THEN [st EXCEPT !.last_stable_rate = Some(rs[k].target_rate),
                        !.idx = k + 1]
        ELSE [st EXCEPT !.idx = k + 1]

\* Variant: a Warning step updates last_stable_rate like an Ok step.
ScanBody_warning_updates(st, rs, as) ==
    LET k == st.idx
        a == as[k]
    IN  IF IsTerminal(a.status)
        THEN [st EXCEPT
                !.breaking_point_rate = Some(rs[k].target_rate),
                !.break_reason = a.break_reason,
                !.was_rate_limited = (a.status = "RateLimited"),
                !.was_blocked = (a.status = "Blocked"),
                !.last_stable_rate =
                    IF k > 1 THEN Some(rs[k - 1].target_rate) ELSE @,
                !.broke = TRUE]
        ELSE [st EXCEPT !.last_stable_rate = Some(rs[k].target_rate),
                        !.idx = k + 1]

\* One iteration of the loop of lines 104-126, on element st.idx.
ScanBody(st, rs, as) ==
    LET k == st.idx
        a == as[k]
    IN  IF IsTerminal(a.status)
        THEN [st EXCEPT
                !.breaking_point_rate = Some(rs[k].target_rate),
                !.break_reason = a.break_reason,
                !.was_rate_limited = (a.status = "RateLimited"),
                !.was_blocked = (a.status = "Blocked"),
                !.last_stable_rate =
                    IF k > 1 THEN Some(rs[k - 1].target_rate) ELSE @,
                !.broke = TRUE]
        ELSE IF a.status = "Ok"
        THEN [st EXCEPT !.last_stable_rate = Some(rs[k].target_rate),
                        !.idx = k + 1]
        ELSE [st EXCEPT !.idx = k + 1]

RECURSIVE ScanLoop(_, _, _)
ScanLoop(st, rs, as) ==
    IF ScanDone(st, as) THEN st ELSE ScanLoop(ScanBody(st, rs, as), rs, as)

\* Variant: rounds to the nearest integer instead of truncating.
RecommendedRate_rounded(r) == (r * 8 + 5) \div 10

\* (r as f64 * 0.8) as u32
RecommendedRate(r) == (r * 8) \div 10

RECURSIVE TotalRequests(_)
TotalRequests(rs) ==
    IF rs = << >> THEN 0 ELSE Head(rs).total_requests + TotalRequests(Tail(rs))

\* The entry of the HashMap of lines 141-146 for one code: the sum of the
\* counts of that code over a list of (code, count) entries, and over all
\* results.
RECURSIVE CountInList(_, _)
CountInList(list, code) ==
    IF list = << >> THEN 0
    ELSE (IF Head(list)[1] = code THEN Head(list)[2] ELSE 0)
         + CountInList(Tail(list), code)

RECURSIVE CountInResults(_, _)
CountInResults(rs, code) ==
    IF rs = << >> THEN 0
    ELSE CountInList(Head(rs).error_status_codes, code)
         + CountInResults(Tail(rs), code)

\* Variant: the count of a code is the one of the last step alone.
ErrorCodeCounts_last_step(rs) ==
    LET codes == UNION { { rs[k].error_status_codes[j][1] :
                             j \in 1..Len(rs[k].error_status_codes) } :
                         k \in 1..Len(rs) }
    IN  { <<c, CountInResults(<<rs[Len(rs)]>>, c)>> : c \in codes }

ErrorCodeCounts(rs) ==
    LET codes == UNION { { rs[k].error_status_codes[j][1] :
                             j \in 1..Len(rs[k].error_status_codes) } :
                         k \in 1..Len(rs) }
    IN  { <<c, CountInResults(rs, c)>> : c \in codes }

\* Lines 148-149: the entries of the map in an order sorted by count,
\* descending.  The map's iteration order is unspecified, so entries of equal
\* count may come out in any order: every sorted arrangement is possible.
AggregatedOrders(rs) ==
    LET M == ErrorCodeCounts(rs)
        n == Cardinality(M)
    IN  { s \in [1..n -> M] :
            /\ \A j, k \in 1..n : j # k => s[j] # s[k]
            /\ \A j \in 1..(n - 1) : s[j][2] >= s[j + 1][2] }

\* Variant: no fallback to the last rate tested when the run never broke.
SummaryOf_no_fallback(st, rs, duration_per_step, agg) ==
    [breaking_point_rate    |-> st.breaking_point_rate,
     break_reason           |-> st.break_reason,
     last_stable_rate       |-> st.last_stable_rate,
     recommended_rate       |->
         IF st.last_stable_rate = None THEN None
         ELSE Some(RecommendedRate(st.last_stable_rate[1])),
     total_requests         |-> TotalRequests(rs),
     total_duration_seconds |-> Len(rs) * duration_per_step,
     was_rate_limited       |-> st.was_rate_limited,
     was_blocked            |-> st.was_blocked,
     aggregated_error_codes |-> agg]

\* Lines 128-161: what follows the loop, from its final locals.
SummaryOf(st, rs, duration_per_step, agg) ==
    LET last_stable ==
            IF st.breaking_point_rate = None /\ rs # << >>
            THEN Some(rs[Len(rs)].target_rate)
            ELSE st.last_stable_rate
    IN  [breaking_point_rate    |-> st.breaking_point_rate,
         break_reason           |-> st.break_reason,
         last_stable_rate       |-> last_stable,
         recommended_rate       |->
             IF last_stable = None THEN None
             ELSE Some(RecommendedRate(last_stable[1])),
         total_requests         |-> TotalRequests(rs),
         total_duration_seconds |-> Len(rs) * duration_per_step,
         was_rate_limited       |-> st.was_rate_limited,
         was_blocked            |-> st.was_blocked,
         aggregated_error_codes |-> agg]

\* generate_summary as a whole; agg is the order the sort leaves.
generate_summary(rs, as, duration_per_step, agg) ==
    SummaryOf(ScanLoop(ScanInit, rs, as), rs, duration_per_step, agg)

----------------------------------------------------------------------------
(* Specification SpecSummary: generate_summary run on drawn sequences *)

MaxSteps == 3

SummaryRates == {7, 50, 100, 150}

\* One classification per status, as analyze_result builds them.
SummaryAnalyses ==
    { AnalysisResult("Ok", ReasonNone),
      AnalysisResult("Warning", ReasonNone),
      AnalysisResult("Break", BreakReason("P99Latency", 3001)),
      AnalysisResult("RateLimited", BreakReason("RateLimited", 60)),
      AnalysisResult("Blocked", BreakReason("Blocked", 50)),
      AnalysisResult("Hung", BreakReason("Hung", 0)),
      AnalysisResult("Gone", BreakReason("NoResponses", 0)) }

SummaryResults == { [DefaultResult EXCEPT !.target_rate = t] : t \in SummaryRates }

InitSummary ==
    /\ config = DefaultConfig
    /\ \E n \in 0..MaxSteps :
          /\ results \in [1..n -> SummaryResults]
          /\ analyses \in [1..n -> SummaryAnalyses]
    /\ scan = Some(ScanInit)
    /\ summary = None
    /\ pc = "scan"
    /\ rates = << >>
    /\ url_idx = 0
    /\ i = 0
    /\ all_url_results = << >>
    /\ result = DefaultResult
    /\ analysis = None
    /\ gen = None
    /\ overflow_checks = FALSE
    /\ live = 0
    /\ output = None
    /\ trace = << >>

\* One iteration of the scan loop.
SummaryScanStep ==
    /\ pc = "scan"
    /\ ~ScanDone(scan[1], analyses)
    /\ scan' = Some(ScanBody(scan[1], results, analyses))
    /\ UNCHANGED <<config, pc, rates, url_idx, i, results, analyses,
                   all_url_results, summary, result, analysis,
                   gen, overflow_checks, live, trace, output>>

\* The rest of the function, after the loop.
SummaryFinish ==
    /\ pc = "scan"
    /\ ScanDone(scan[1], analyses)
    /\ \E agg \in AggregatedOrders(results) :
          summary' = Some(SummaryOf(scan[1], results,
                                    config.ramping.duration_seconds, agg))
    /\ pc' = "returned"
    /\ UNCHANGED <<config, rates, url_idx, i, results, analyses,
                   all_url_results, scan, result, analysis,
                   gen, overflow_checks, live, trace, output>>

NextSummary == SummaryScanStep \/ SummaryFinish

SpecSummary == InitSummary /\ [][NextSummary]_vars


----------------------------------------------------------------------------
(* config.rs: RampingConfig::generate_rates *)

\* start_rate, max_rate, step and current are u32.  The arithmetic is modelled
\* at a reduced width: values range over 0 .. RateModulus - 1, as u32 values
\* range over 0 .. 2^32 - 1.
RateModulus == 256

\* The locals at the head of the loop (lines 190-191).
GenInit(ramping) ==
    [current |-> ramping.start_rate, rates |-> << >>, status |-> "loop"]

\* One evaluation of the loop condition and, when it holds, of the body (lines
\* 193-205).  current + step and current * 2 are plain u32 operations: on a
\* result that does not fit they panic in a build with overflow checks and
\* wrap in a build without (oc tells which).  status is "loop" while the loop
\* runs, "returned" after line 207, "panicked" after an overflow panic.
GenBody(st, ramping, oc) ==
    IF ~(st.current <= ramping.max_rate)
    THEN [st EXCEPT !.status = "returned"]
    ELSE LET pushed == Append(st.rates, st.current)
             raw    == IF ramping.mode = "Linear"
                       THEN st.current + ramping.step
                       ELSE st.current * 2
             next   == raw % RateModulus
         IN  IF raw >= RateModulus /\ oc
             THEN [st EXCEPT !.rates = pushed, !.status = "panicked"]
             ELSE IF ramping.mode = "Exponential" /\ next = st.current
             THEN [st EXCEPT !.rates = pushed, !.status = "returned"]
             ELSE [st EXCEPT !.rates = pushed, !.current = next]

\* The loop run to its end.  In Linear mode the next iteration depends on
\* current alone, so a loop about to push a value it has pushed before never
\* ends: status "spinning".
RECURSIVE GenLoop(_, _, _)
GenLoop(st, ramping, oc) ==
    IF st.status # "loop"
    THEN st
    ELSE IF /\ ramping.mode = "Linear"
            /\ st.current <= ramping.max_rate
            /\ \E k \in 1..Len(st.rates) : st.rates[k] = st.current
    THEN [st EXCEPT !.status = "spinning"]
    ELSE GenLoop(GenBody(st, ramping, oc), ramping, oc)

generate_rates(ramping, oc) == GenLoop(GenInit(ramping), ramping, oc)

\* generate_rates one iteration at a time, on configurations at and near the
\* ends of the value range.
RateEdges ==
    {0, 1, 2, 3, RateModulus \div 2, RateModulus - 3, RateModulus - 2,
     RateModulus - 1}

RatesInputs ==
    { RampingConfig(m, s, mx, st, 30) :
        m \in {"Linear", "Exponential"}, s \in RateEdges, mx \in RateEdges,
        st \in {0, 1, 2, RateModulus \div 2, RateModulus - 1} }

InitRates ==
    /\ config \in { [DefaultConfig EXCEPT !.ramping = rp] : rp \in RatesInputs }
    /\ overflow_checks \in BOOLEAN
    /\ gen = Some(GenInit(config.ramping))
    /\ pc = "rates"
    /\ rates = << >>
    /\ url_idx = 0
    /\ i = 0
    /\ results = << >>
    /\ analyses = << >>
    /\ all_url_results = << >>
    /\ scan = None
    /\ summary = None
    /\ result = DefaultResult
    /\ analysis = None
    /\ live = 0
    /\ output = None
    /\ trace = << >>

GenerateRatesStep ==
    /\ pc = "rates"
    /\ gen[1].status = "loop"
    /\ Len(gen[1].rates) <= RateModulus
    /\ gen' = Some(GenBody(gen[1], config.ramping, overflow_checks))
    /\ UNCHANGED <<config, pc, rates, url_idx, i, results, analyses,
                   all_url_results, scan, summary, result, analysis,
                   overflow_checks, live, trace, output>>

NextRates == GenerateRatesStep

SpecRates == InitRates /\ [][NextRates]_vars

----------------------------------------------------------------------------
(* runner.rs: parse_oha_output *)

\* In this section and under SpecParse the f64 values that take fractions are
\* kept in hundredths: success_rate and error_rate in hundredths of a percent,
\* requests_per_sec, actual_rate and target_rate in hundredths of a request
\* per second, max_error_rate in the unit of error_rate.  Latencies are in
\* whole milliseconds and counts are plain numbers.

\* The output of a process, as far as parse_oha_output reads it: the value of
\* the "Success rate:" line and of the "Requests/sec:" line (Options), the
\* latency lines (each an Option of <<value, unit>>), the lines
\* "[code] count responses" in the order of the text, and the counts of the
\* lines of the "Error distribution:" section.  The outputs drawn below hold
\* no "Size/sec:" line, so lines 325-329 leave transfer_rate at the default.
OhaOutput(success_rate, requests_per_sec, latencies, status_lines, error_lines) ==
    [success_rate |-> success_rate, requests_per_sec |-> requests_per_sec,
     latencies |-> latencies,
     status_lines |-> status_lines, error_lines |-> error_lines]

LatencyLines(avg, slowest, p50, p90, p99) ==
    [avg |-> avg, slowest |-> slowest, p50 |-> p50, p90 |-> p90, p99 |-> p99]

\* Lines 340-350, on a whole value; the values drawn in us are whole
\* milliseconds.
parse_time_to_ms(value, unit) ==
    IF unit = "us" THEN value \div 1000
    ELSE IF unit = "ms" THEN value
    ELSE IF unit = "s" THEN value * 1000
    ELSE IF unit = "m" THEN value * 60000
    ELSE value

\* Lines 249-251 and alike: a latency field after its line, if any.
LatencyField(line, default) ==
    IF line # None THEN parse_time_to_ms(line[1][1], line[1][2]) ELSE default

\* Variant: only the codes from 400 up count as errors.
IsErrorCode_from_400(status_code) == status_code >= 400

\* Line 293: !(200..400).contains(&status_code).
IsErrorCode(status_code) == ~(200 <= status_code /\ status_code < 400)

\* Lines 283-297: the loop over the status lines, from line k on; st holds
\* total_requests, error_responses and error_status_codes.
RECURSIVE StatusLoop(_, _, _)
StatusLoop(lines, k, st) ==
    IF k > Len(lines)
    THEN st
    ELSE LET status_code == lines[k][1]
             count       == lines[k][2]
             counted     == [st EXCEPT !.total_requests = @ + count]
         IN  StatusLoop(lines, k + 1,
                IF IsErrorCode(status_code)
                THEN [counted EXCEPT
                        !.error_responses = @ + count,
                        !.error_status_codes = Append(@, <<status_code, count>>)]
                ELSE counted)

\* Line 300: sort_by(|a, b| b.1.cmp(&a.1)), a stable sort by count, largest
\* first.  InsertByCount puts e behind every element whose count is not
\* smaller.
RECURSIVE InsertByCount(_, _)
InsertByCount(sorted, e) ==
    IF sorted = << >>
    THEN <<e>>
    ELSE IF Head(sorted)[2] >= e[2]
    THEN <<Head(sorted)>> \o InsertByCount(Tail(sorted), e)
    ELSE <<e>> \o sorted

\* Variant: the entries are left in the order of the text.
SortByCount_unsorted(codes) == codes

RECURSIVE SortByCount(_)
SortByCount(codes) ==
    IF codes = << >>
    THEN << >>
    ELSE InsertByCount(SortByCount(SubSeq(codes, 1, Len(codes) - 1)),
                       codes[Len(codes)])

\* Lines 308-313: the sum of the counts of the error distribution.
RECURSIVE ErrorLoop(_, _)
ErrorLoop(lines, k) ==
    IF k > Len(lines) THEN 0 ELSE lines[k] + ErrorLoop(lines, k + 1)

\* Variant: the provisional error rate is never replaced.
RecalculateErrorRate_never(r) == r

\* Variant: the error rate is recomputed whenever total_requests > 0.
RecalculateErrorRate_when_total(r) ==
    IF r.total_requests > 0
    THEN [r EXCEPT !.error_rate = (r.errors * 10000) \div r.total_requests]
    ELSE r

\* Lines 320-323: (errors as f64 / total_requests as f64) * 100.0.
RecalculateErrorRate(r) ==
    IF r.total_requests > 0 /\ r.errors > 0
    THEN [r EXCEPT !.error_rate = (r.errors * 10000) \div r.total_requests]
    ELSE r

\* Variant: the estimate is rounded to the nearest integer.
EstimateTotalRequests_rounded(actual_rate, duration_seconds) ==
    (actual_rate * duration_seconds + 50) \div 100

\* Line 333: (actual_rate * duration_seconds as f64) as u64; the cast drops
\* the fraction.
EstimateTotalRequests(actual_rate, duration_seconds) ==
    (actual_rate * duration_seconds) \div 100

\* Lines 230-337.
parse_oha_output(out, target_rate, duration_seconds) ==
    LET r0 == [DefaultResult EXCEPT !.target_rate = target_rate]
        r1 == IF out.success_rate # None
              THEN [r0 EXCEPT !.error_rate = 10000 - out.success_rate[1]]
              ELSE r0
        r2 == [r1 EXCEPT
                 !.avg_latency_ms = LatencyField(out.latencies.avg, @),
                 !.max_latency_ms = LatencyField(out.latencies.slowest, @),
                 !.actual_rate = IF out.requests_per_sec # None
                                 THEN out.requests_per_sec[1] ELSE @,
                 !.p50_latency_ms = LatencyField(out.latencies.p50, @),
                 !.p90_latency_ms = LatencyField(out.latencies.p90, @),
                 !.p99_latency_ms = LatencyField(out.latencies.p99, @)]
        st == StatusLoop(out.status_lines, 1,
                         [total_requests |-> 0, error_responses |-> 0,
                          error_status_codes |-> << >>])
        transport == ErrorLoop(out.error_lines, 1)
        r3 == [r2 EXCEPT
                 !.errors = transport + st.error_responses,
                 !.total_requests = st.total_requests + transport,
                 !.error_status_codes = SortByCount(st.error_status_codes)]
        r4 == RecalculateErrorRate(r3)
    IN  IF r4.total_requests = 0 /\ r4.actual_rate > 0
        THEN [r4 EXCEPT !.total_requests =
                            EstimateTotalRequests(r4.actual_rate, duration_seconds)]
        ELSE r4

\* parse_oha_output on outputs of up to MaxLines status lines, with codes on
\* both sides of the limits 200 and 400, and the classification of the
\* result as in main.rs:178-190.
MaxLines == 2

SeqsUpTo(S, n) == UNION { [1..k -> S] : k \in 0..n }

NoLatencies == LatencyLines(None, None, None, None, None)

ParseLatencies ==
    { NoLatencies,
      LatencyLines(Some(<<239, "ms">>), Some(<<2, "s">>), Some(<<196, "ms">>),
                   Some(<<378000, "us">>), Some(<<776, "ms">>)),
      LatencyLines(Some(<<2, "s">>), Some(<<1, "m">>), Some(<<1, "s">>),
                   Some(<<3, "s">>), Some(<<4, "s">>)) }

ParseOutputs ==
    { OhaOutput(sr, rps, lat, sl, el) :
        sr \in {None, Some(9250)}, rps \in {None, Some(999)},
        lat \in ParseLatencies,
        sl \in SeqsUpTo({199, 200, 399, 403, 429} \X {0, 1, 2}, MaxLines),
        el \in {<< >>, <<0>>, <<2>>, <<2, 1>>} }

InitParse ==
    /\ config \in { [DefaultConfig EXCEPT
                       !.ramping.start_rate = @ * 100,
                       !.thresholds = th] :
                    th \in { ThresholdConfig(0, 0),
                             ThresholdConfig(DefaultConfig.thresholds.max_error_rate * 100,
                                             DefaultConfig.thresholds.max_p99_ms) } }
    /\ output \in { Some(o) : o \in ParseOutputs }
    /\ pc = "parse"
    /\ rates = << >>
    /\ url_idx = 0
    /\ i = 0
    /\ results = << >>
    /\ analyses = << >>
    /\ all_url_results = << >>
    /\ scan = None
    /\ summary = None
    /\ result = DefaultResult
    /\ analysis = None
    /\ gen = None
    /\ overflow_checks = FALSE
    /\ live = 0
    /\ trace = << >>

ParseOutput ==
    /\ pc = "parse"
    /\ result' = parse_oha_output(output[1], config.ramping.start_rate,
                                  config.ramping.duration_seconds)
    /\ pc' = "parsed"
    /\ UNCHANGED <<config, rates, url_idx, i, results, analyses,
                   all_url_results, scan, summary, analysis,
                   gen, overflow_checks, live, output, trace>>

\* main.rs:190: the result of run_benchmark is classified.
ClassifyParsed ==
    /\ pc = "parsed"
    /\ analysis' = Some(analyze_result(result, config.thresholds))
    /\ pc' = "classified"
    /\ UNCHANGED <<config, rates, url_idx, i, results, analyses,
                   all_url_results, scan, summary, result,
                   gen, overflow_checks, live, output, trace>>

NextParse == ParseOutput \/ ClassifyParsed

SpecParse == InitParse /\ [][NextParse]_vars

----------------------------------------------------------------------------
(* runner.rs: run_benchmark and run_warmup *)

\* Results the parser returns for a process that exited within the bound:
\* a healthy step, a step near the error threshold, a step without observed
\* latencies, steps above the error threshold with 500, 429 and 403 as the
\* most frequent code, a step above the latency threshold and a step at half
\* the requested throughput.
ParsedResults(rate) ==
    LET healthy ==
            [DefaultResult EXCEPT
                !.target_rate = rate, !.actual_rate = rate,
                !.avg_latency_ms = 50, !.p50_latency_ms = 40,
                !.p90_latency_ms = 80, !.p99_latency_ms = 100,
                !.max_latency_ms = 200, !.total_requests = 100]
    IN  { healthy,
          [healthy EXCEPT !.errors = 3, !.error_rate = 3,
                          !.error_status_codes = << <<500, 3>> >>],
          [DefaultResult EXCEPT
                !.target_rate = rate, !.actual_rate = 1,
                !.total_requests = 3, !.errors = 3, !.error_rate = 100,
                !.error_status_codes = << <<502, 3>> >>],
          [healthy EXCEPT !.errors = 50, !.error_rate = 50,
                          !.error_status_codes = << <<500, 50>> >>],
          [healthy EXCEPT !.errors = 60, !.error_rate = 60,
                          !.error_status_codes = << <<429, 50>>, <<500, 10>> >>],
          [healthy EXCEPT !.errors = 50, !.error_rate = 50,
                          !.error_status_codes = << <<403, 50>> >>],
          [healthy EXCEPT !.p99_latency_ms = 3001, !.max_latency_ms = 3001],
          [healthy EXCEPT !.actual_rate = rate \div 2] }

\* runner.rs:12.
HANG_TIMEOUT_GRACE_SECONDS == 30

\* Variant: the bound of the wait is the duration alone.
timeout_secs_no_grace(duration_seconds) == duration_seconds

\* Line 130: the bound of the wait, in seconds.
timeout_secs(duration_seconds) == duration_seconds + HANG_TIMEOUT_GRACE_SECONDS

\* When a spawned process exits if it is left alone, in seconds after its
\* spawn: just inside and just outside the bound of the wait.
ExitTimes(duration_seconds) ==
    { duration_seconds + HANG_TIMEOUT_GRACE_SECONDS - 1,
      duration_seconds + HANG_TIMEOUT_GRACE_SECONDS + 1 }

\* Lines 134-135: child.wait_timeout(timeout) on a child that exits exit_at
\* seconds after its spawn: Some(status) when it exits within the timeout,
\* None when the timeout elapses first.
wait_timeout(exit_at, timeout) ==
    IF exit_at <= timeout THEN Some("status") ELSE None

\* One external effect of the run: op on the process of step number step
\* (0 for the warmup) of URL number url; t is the exit time of the process
\* for a spawn and 0 otherwise.
Event(op, url, step, t) == [op |-> op, url |-> url, step |-> step, t |-> t]

----------------------------------------------------------------------------
(* main.rs: run_benchmark_suite *)

\* Variant: Gone stops the step loop as well.
should_break_with_gone(status) ==
    status \in {"Break", "RateLimited", "Blocked", "Hung", "Gone"}

\* The matches! of lines 196-202.
should_break(status) ==
    status \in {"Break", "RateLimited", "Blocked", "Hung"}

\* Variant: the rate sequence is never taken as empty.
RatesEmpty_never(rs) == FALSE

\* Line 126: rates.is_empty().
RatesEmpty(rs) == rs = << >>

\* Variant: the cooldown does not depend on cooldown_seconds.
cooldown_due_unconditional(cooldown_seconds, i_, n) == i_ < n

\* Line 212: the condition of the cooldown after the step of rates[i]; the
\* index of the code counts from 0, i from 1.
cooldown_due(cooldown_seconds, i_, n) == cooldown_seconds > 0 /\ i_ < n

\* Bounds of a run: the number of URLs, and the number of steps of a whole
\* run (URLs times rates).
MaxUrls == 2

MaxRunSteps == 4

RunRampings ==
    { RampingConfig("Linear", 50, 150, 50, 30),
      RampingConfig("Linear", 50, 100, 50, 30),
      RampingConfig("Linear", 100, 100, 50, 30),
      RampingConfig("Linear", 100, 50, 50, 30),
      RampingConfig("Exponential", 50, 100, 50, 30),
      RampingConfig("Exponential", 0, 100, 50, 30),
      RampingConfig("Linear", 50, 100, 0, 30),
      RampingConfig("Linear", 100, 150, 200, 30) }

RunConfigs ==
    { c \in { [DefaultConfig EXCEPT !.urls = u, !.ramping = rp,
                                    !.warmup_seconds = w, !.cooldown_seconds = cd] :
                u \in 1..MaxUrls, rp \in RunRampings, w \in {0, 10}, cd \in {0, 5} } :
        LET g == generate_rates(c.ramping, FALSE)
        IN  g.status = "returned" => c.urls * Len(g.rates) <= MaxRunSteps }

Init ==
    /\ config \in RunConfigs
    /\ pc = "start"
    /\ rates = << >>
    /\ url_idx = 0
    /\ i = 0
    /\ results = << >>
    /\ analyses = << >>
    /\ all_url_results = << >>
    /\ scan = None
    /\ summary = None
    /\ result = DefaultResult
    /\ analysis = None
    /\ gen = None
    /\ overflow_checks \in BOOLEAN
    /\ live = 0
    /\ output = None
    /\ trace = << >>

\* Lines 124-135: the rate sequence; an empty one fails the run.  A panic of
\* generate_rates ends the run there, and a loop without end never gets past
\* line 124.
Start ==
    /\ pc = "start"
    /\ LET g == generate_rates(config.ramping, overflow_checks) IN
          /\ rates' = g.rates
          /\ IF g.status # "returned"
             THEN pc' = g.status /\ UNCHANGED url_idx
             ELSE IF RatesEmpty(g.rates)
             THEN pc' = "failed" /\ UNCHANGED url_idx
             ELSE pc' = "url" /\ url_idx' = 1
    /\ UNCHANGED <<config, i, results, analyses, all_url_results, scan,
                   summary, result, analysis,
                   gen, overflow_checks, live, trace, output>>

\* Lines 135-170: the head of an iteration of the URL loop.  With a warmup
\* configured, run_warmup spawns its process (runner.rs:177-195); when that
\* fails the URL is skipped.  Without, the step loop starts.
BeginUrl ==
    /\ pc = "url"
    /\ url_idx <= config.urls
    /\ IF config.warmup_seconds > 0
       THEN \E spawned \in BOOLEAN :
               IF spawned
               THEN /\ pc' = "warmup"
                    /\ live' = live + 1
                    /\ trace' = Append(trace, Event("warmup_spawn", url_idx, 0, 0))
                    /\ UNCHANGED <<url_idx, i, results, analyses>>
               ELSE /\ url_idx' = url_idx + 1
                    /\ trace' = Append(trace,
                                       Event("warmup_spawn_failed", url_idx, 0, 0))
                    /\ UNCHANGED <<pc, live, i, results, analyses>>
       ELSE /\ results' = << >>
            /\ analyses' = << >>
            /\ i' = 1
            /\ pc' = "step"
            /\ UNCHANGED <<url_idx, live, trace>>
    /\ UNCHANGED <<config, rates, all_url_results, scan, summary, result, analysis,
                   gen, overflow_checks, output>>

\* Variant: the steps of the URL run whatever the status of the warmup.
WarmupExit_ignores_status ==
    /\ pc = "warmup"
    /\ live' = live - 1
    /\ \E success \in BOOLEAN :
          /\ trace' = Append(trace,
                             Event(IF success THEN "warmup_exit" ELSE "warmup_failed",
                                   url_idx, 0, 0))
          /\ results' = << >>
          /\ analyses' = << >>
          /\ i' = 1
          /\ pc' = "step"
          /\ UNCHANGED url_idx
    /\ UNCHANGED <<config, rates, all_url_results, scan, summary, result, analysis,
                   gen, overflow_checks, output>>

\* runner.rs:195-200 and main.rs:148-170: the warmup process exits; on a
\* status other than success the URL is skipped.
WarmupExit ==
    /\ pc = "warmup"
    /\ live' = live - 1
    /\ \E success \in BOOLEAN :
          IF success
          THEN /\ trace' = Append(trace, Event("warmup_exit", url_idx, 0, 0))
               /\ results' = << >>
               /\ analyses' = << >>
               /\ i' = 1
               /\ pc' = "step"
               /\ UNCHANGED url_idx
          ELSE /\ trace' = Append(trace, Event("warmup_failed", url_idx, 0, 0))
               /\ url_idx' = url_idx + 1
               /\ pc' = "url"
               /\ UNCHANGED <<i, results, analyses>>
    /\ UNCHANGED <<config, rates, all_url_results, scan, summary, result, analysis,
                   gen, overflow_checks, output>>

\* Variant: a failed spawn is recorded as a hung step.
StepSpawn_hung_on_failure ==
    /\ pc = "step"
    /\ \E spawned \in BOOLEAN, exit_at \in ExitTimes(config.ramping.duration_seconds) :
          IF spawned
          THEN /\ pc' = "wait"
               /\ live' = live + 1
               /\ trace' = Append(trace, Event("spawn", url_idx, i, exit_at))
               /\ UNCHANGED <<results, analyses>>
          ELSE /\ pc' = "summary"
               /\ trace' = Append(trace, Event("spawn_failed", url_idx, i, 0))
               /\ results' = Append(results, HungResult(rates[i]))
               /\ analyses' = Append(analyses,
                                     analyze_result(HungResult(rates[i]),
                                                    config.thresholds))
               /\ UNCHANGED live
    /\ UNCHANGED <<config, rates, url_idx, i, all_url_results,
                   scan, summary, result, analysis, gen, overflow_checks, output>>

\* runner.rs:122-127 and main.rs:178-185: the spawn of the process of the step
\* of rates[i].  When it fails run_benchmark returns Err and the step loop is
\* left with nothing recorded for the step.
StepSpawn ==
    /\ pc = "step"
    /\ \E spawned \in BOOLEAN, exit_at \in ExitTimes(config.ramping.duration_seconds) :
          IF spawned
          THEN /\ pc' = "wait"
               /\ live' = live + 1
               /\ trace' = Append(trace, Event("spawn", url_idx, i, exit_at))
          ELSE /\ pc' = "summary"
               /\ trace' = Append(trace, Event("spawn_failed", url_idx, i, 0))
               /\ UNCHANGED live
    /\ UNCHANGED <<config, rates, url_idx, i, results, analyses, all_url_results,
                   scan, summary, result, analysis, gen, overflow_checks, output>>

\* runner.rs:129-168 and main.rs:178-217: the bounded wait and the rest of the
\* iteration of the step loop, up to the cooldown.  An error of the wait
\* returns through the ? of line 136, past the kill and the wait of lines
\* 157-158: the process is left as it is.  A process that exits within the
\* bound has its output read and parsed; one that does not is killed and
\* reaped and the result is the synthetic one.
StepWait ==
    /\ pc = "wait"
    /\ LET timeout == timeout_secs(config.ramping.duration_seconds)
           exit_at == trace[Len(trace)].t
           ev(op)  == Event(op, url_idx, i, 0)
       IN  \E wait_ok \in BOOLEAN, parsed \in ParsedResults(rates[i]) :
              IF ~wait_ok
              THEN /\ pc' = "summary"
                   /\ trace' = Append(trace, ev("wait_failed"))
                   /\ UNCHANGED <<live, i, results, analyses>>
              ELSE LET timed_out == wait_timeout(exit_at, timeout) = None
                       r == IF timed_out THEN HungResult(rates[i]) ELSE parsed
                       a == analyze_result(r, config.thresholds)
                   IN  /\ live' = live - 1
                       /\ trace' = trace \o
                             (IF timed_out
                              THEN <<ev("timeout"), ev("kill"), ev("reap")>>
                              ELSE <<ev("exit"), ev("read"), ev("parse")>>)
                       /\ results' = Append(results, r)
                       /\ analyses' = Append(analyses, a)
                       /\ IF should_break(a.status)
                          THEN pc' = "summary" /\ UNCHANGED i
                          ELSE IF cooldown_due(config.cooldown_seconds, i, Len(rates))
                          THEN pc' = "cooldown" /\ UNCHANGED i
                          ELSE IF i < Len(rates)
                          THEN pc' = "step" /\ i' = i + 1
                          ELSE pc' = "summary" /\ UNCHANGED i
    /\ UNCHANGED <<config, rates, url_idx, all_url_results, scan, summary,
                   result, analysis, gen, overflow_checks, output>>

\* A process left behind by an error of the wait exits by itself.
OrphanExit ==
    /\ live > (IF pc \in {"wait", "warmup"} THEN 1 ELSE 0)
    /\ live' = live - 1
    /\ UNCHANGED <<config, pc, rates, url_idx, i, results, analyses,
                   all_url_results, scan, summary, result, analysis,
                   gen, overflow_checks, trace, output>>

\* Lines 212-216: the sleep ends and the loop takes the next rate.
Cooldown ==
    /\ pc = "cooldown"
    /\ pc' = "step"
    /\ i' = i + 1
    /\ trace' = Append(trace, Event("sleep", url_idx, i, 0))
    /\ UNCHANGED <<config, rates, url_idx, results, analyses, all_url_results,
                   scan, summary, result, analysis,
                   gen, overflow_checks, live, output>>

\* Lines 219-232: the summary of the URL and its entry in all_url_results.
Summarize ==
    /\ pc = "summary"
    /\ \E agg \in AggregatedOrders(results) :
          LET s == generate_summary(results, analyses,
                                    config.ramping.duration_seconds, agg)
          IN  /\ summary' = Some(s)
              /\ all_url_results' =
                    Append(all_url_results,
                           [url |-> url_idx, results |-> results,
                            analyses |-> analyses, summary |-> s])
    /\ url_idx' = url_idx + 1
    /\ pc' = "url"
    /\ UNCHANGED <<config, rates, i, results, analyses, scan, result, analysis,
                   gen, overflow_checks, live, trace, output>>

\* Lines 234-270: after the last URL the report is saved and the run returns.
Finish ==
    /\ pc = "url"
    /\ url_idx > config.urls
    /\ pc' = "done"
    /\ UNCHANGED <<config, rates, url_idx, i, results, analyses,
                   all_url_results, scan, summary, result, analysis,
                   gen, overflow_checks, live, trace, output>>

Next ==
    \/ Start
    \/ BeginUrl
    \/ WarmupExit
    \/ StepSpawn
    \/ StepWait
    \/ OrphanExit
    \/ Cooldown
    \/ Summarize
    \/ Finish

Spec == Init /\ [][Next]_vars


----------------------------------------------------------------------------
(* Claims about analyze_result, checked under SpecAnalyze *)

Analyzed == pc = "analyzed"

\* The conditions of the seven rules, written out on the fields.
Rule1(r) == r.hung

Rule2(r) == r.p99_latency_ms = 0 /\ r.avg_latency_ms = 0 /\ r.actual_rate > 0

Rule3(r, th) == r.error_rate > th.max_error_rate

Rule4(r, th) == r.p99_latency_ms > th.max_p99_ms

Rule5(r) == r.target_rate > 0 /\ r.actual_rate * 100 < 70 * r.target_rate

Rule6(r, th) ==
    2 * r.error_rate > th.max_error_rate \/ 10 * r.p99_latency_ms > 7 * th.max_p99_ms

\* C4: analyze_result is a total, first-match-wins decision list: the value
\* returned is the outcome of the first of the rules (1) hung, (2) no
\* responses, (3) error rate, (4) p99 latency, (5) throughput degradation,
\* (6) warning, (7) ok whose condition holds; no later rule overrides it.
C4_FirstMatchWins ==
    Analyzed =>
        LET r  == result
            th == config.thresholds
            a  == analysis[1]
        IN  /\ Len(analysis) = 1
            /\ a.status \in StepStatus
            /\ Rule1(r) =>
                  a = AnalysisResult("Hung", BreakReason("Hung", 0))
            /\ ~Rule1(r) /\ Rule2(r) =>
                  a = AnalysisResult("Gone", BreakReason("NoResponses", 0))
            /\ ~Rule1(r) /\ ~Rule2(r) /\ Rule3(r, th) =>
                  /\ a.status \in {"RateLimited", "Blocked", "Break"}
                  /\ a.break_reason.tag \in {"RateLimited", "Blocked", "ErrorRate"}
                  /\ a.break_reason.val = r.error_rate
            /\ ~Rule1(r) /\ ~Rule2(r) /\ ~Rule3(r, th) /\ Rule4(r, th) =>
                  a = AnalysisResult("Break", BreakReason("P99Latency", r.p99_latency_ms))
            /\ ~Rule1(r) /\ ~Rule2(r) /\ ~Rule3(r, th) /\ ~Rule4(r, th) /\ Rule5(r) =>
                  /\ a.status = "Break"
                  /\ a.break_reason.tag = "ThroughputDegradation"
                  /\ a.break_reason.val = (r.actual_rate * 100) \div r.target_rate
            /\ ~Rule1(r) /\ ~Rule2(r) /\ ~Rule3(r, th) /\ ~Rule4(r, th) /\ ~Rule5(r)
                  /\ Rule6(r, th) =>
                  a = AnalysisResult("Warning", ReasonNone)
            /\ ~Rule1(r) /\ ~Rule2(r) /\ ~Rule3(r, th) /\ ~Rule4(r, th) /\ ~Rule5(r)
                  /\ ~Rule6(r, th) =>
                  a = AnalysisResult("Ok", ReasonNone)

\* A result on which rules (3), (4), (5) and (6) all match has been analysed.
C4_Witness ==
    /\ Analyzed
    /\ ~Rule1(result) /\ ~Rule2(result)
    /\ Rule3(result, config.thresholds) /\ Rule4(result, config.thresholds)
    /\ Rule5(result) /\ Rule6(result, config.thresholds)
    /\ analysis[1].break_reason.tag = "ErrorRate"

\* C5: a result with hung = true is classified Hung with reason Hung, whatever
\* the other fields and the thresholds are.
C5_HungAlwaysHung ==
    (Analyzed /\ result.hung) =>
        analysis = Some(AnalysisResult("Hung", BreakReason("Hung", 0)))

\* A hung result that also matches the no-response and error-rate rules.
C5_Witness ==
    /\ Analyzed
    /\ result.hung
    /\ Rule2(result)
    /\ Rule3(result, config.thresholds)
    /\ analysis[1].status = "Hung"

\* C6: when the error-rate rule decides, only the first entry of
\* error_status_codes matters: 429 gives RateLimited, 403 gives Blocked, any
\* other code or an empty list gives Break/ErrorRate, each carrying error_rate.
C6_FirstCodeDecides ==
    (Analyzed /\ ~Rule1(result) /\ ~Rule2(result) /\ Rule3(result, config.thresholds)) =>
        LET codes == result.error_status_codes
            er    == result.error_rate
            a     == analysis[1]
        IN  IF codes # << >> /\ codes[1][1] = 429
            THEN a = AnalysisResult("RateLimited", BreakReason("RateLimited", er))
            ELSE IF codes # << >> /\ codes[1][1] = 403
            THEN a = AnalysisResult("Blocked", BreakReason("Blocked", er))
            ELSE a = AnalysisResult("Break", BreakReason("ErrorRate", er))

\* The example of the claim: [(429,50),(500,10)] above the threshold.
C6_Witness ==
    /\ Analyzed
    /\ ~Rule1(result) /\ ~Rule2(result) /\ Rule3(result, config.thresholds)
    /\ result.error_status_codes = << <<429, 50>>, <<500, 10>> >>
    /\ analysis[1].status = "RateLimited"

----------------------------------------------------------------------------
(* Claims about generate_summary, checked under SpecSummary *)

Returned == pc = "returned"

TerminalSet == {"Break", "RateLimited", "Blocked", "Hung", "Gone"}

\* The indices of the steps with a terminal classification, and the first.
TerminalSteps == { k \in 1..Len(analyses) : analyses[k].status \in TerminalSet }

FirstTerminal == CHOOSE k \in TerminalSteps : \A j \in TerminalSteps : k <= j

\* C2: breaking_point_rate is the target rate of the first step with a
\* terminal status and break_reason is that step's reason, whatever follows
\* it; without such a step breaking_point_rate is absent and break_reason is
\* None.
C2_FirstTerminalWins ==
    Returned =>
        IF TerminalSteps = {}
        THEN /\ summary[1].breaking_point_rate = None
             /\ summary[1].break_reason = ReasonNone
        ELSE /\ summary[1].breaking_point_rate =
                    Some(results[FirstTerminal].target_rate)
             /\ summary[1].break_reason = analyses[FirstTerminal].break_reason

\* Two terminal steps with different rates and reasons were summarised.
C2_Witness ==
    /\ Returned
    /\ \E j, k \in TerminalSteps :
          /\ j < k
          /\ results[j].target_rate # results[k].target_rate
          /\ analyses[j].break_reason # analyses[k].break_reason
          /\ summary[1].breaking_point_rate = Some(results[j].target_rate)

\* C3: with the first terminal step at index f > 1, last_stable_rate is the
\* target rate of step f - 1 (Ok or Warning) and recommended_rate its 80%;
\* with f = 1 both are absent.  Rates [50,100,150] classified
\* [Ok, Warning, Break] give 150, 100 and 80.
C3_StableBeforeBreak ==
    (Returned /\ TerminalSteps # {}) =>
        /\ FirstTerminal > 1 =>
              /\ summary[1].last_stable_rate =
                    Some(results[FirstTerminal - 1].target_rate)
              /\ summary[1].recommended_rate =
                    Some((4 * results[FirstTerminal - 1].target_rate) \div 5)
        /\ FirstTerminal = 1 =>
              /\ summary[1].last_stable_rate = None
              /\ summary[1].recommended_rate = None
        /\ ( /\ Len(results) = 3
             /\ results[1].target_rate = 50
             /\ results[2].target_rate = 100
             /\ results[3].target_rate = 150
             /\ analyses[1].status = "Ok"
             /\ analyses[2].status = "Warning"
             /\ analyses[3].status = "Break" ) =>
              /\ summary[1].breaking_point_rate = Some(150)
              /\ summary[1].last_stable_rate = Some(100)
              /\ summary[1].recommended_rate = Some(80)

\* The example of the claim has been summarised.
C3_Witness ==
    /\ Returned
    /\ Len(results) = 3
    /\ results[1].target_rate = 50
    /\ results[2].target_rate = 100
    /\ results[3].target_rate = 150
    /\ analyses[1].status = "Ok"
    /\ analyses[2].status = "Warning"
    /\ analyses[3].status = "Break"
    /\ summary[1].last_stable_rate = Some(100)

\* C8: an iteration of the scan on an Ok step sets last_stable_rate to that
\* step's target rate, and an iteration on a Warning step leaves
\* last_stable_rate as it was.
C8_ScanUpdatesOnOkOnly ==
    [][ ( /\ pc = "scan"
          /\ scan[1].broke = FALSE
          /\ scan[1].idx <= Len(analyses)
          /\ scan' # scan ) =>
        LET k == scan[1].idx IN
        /\ analyses[k].status = "Ok" =>
              scan'[1].last_stable_rate = Some(results[k].target_rate)
        /\ analyses[k].status = "Warning" =>
              scan'[1].last_stable_rate = scan[1].last_stable_rate ]_vars

\* The scan has passed an Ok step and then a Warning step of another rate.
C8_Witness ==
    /\ pc = "scan"
    /\ scan[1].idx = 3
    /\ analyses[1].status = "Ok"
    /\ analyses[2].status = "Warning"
    /\ results[1].target_rate # results[2].target_rate
    /\ scan[1].last_stable_rate = Some(results[1].target_rate)

\* C9: without a terminal step, last_stable_rate of a non-empty sequence is
\* the target rate of the last step, whatever its status; for an empty
\* sequence last_stable_rate, recommended_rate and breaking_point_rate are
\* absent.
C9_NeverBrokeFallback ==
    (Returned /\ TerminalSteps = {}) =>
        IF Len(results) > 0
        THEN summary[1].last_stable_rate = Some(results[Len(results)].target_rate)
        ELSE /\ summary[1].last_stable_rate = None
             /\ summary[1].recommended_rate = None
             /\ summary[1].breaking_point_rate = None

\* A sequence without a terminal step that ends in a Warning step after an
\* Ok step of another rate.
C9_Witness ==
    /\ Returned
    /\ TerminalSteps = {}
    /\ Len(results) >= 2
    /\ analyses[Len(results)].status = "Warning"
    /\ analyses[Len(results) - 1].status = "Ok"
    /\ results[Len(results)].target_rate # results[Len(results) - 1].target_rate
    /\ summary[1].last_stable_rate = Some(results[Len(results)].target_rate)

\* C10: recommended_rate is present exactly when last_stable_rate is, and is
\* then floor(4 * last_stable_rate / 5), which is at most last_stable_rate.
C10_RecommendedIsEightyPercent ==
    Returned =>
        /\ (summary[1].recommended_rate = None) <=> (summary[1].last_stable_rate = None)
        /\ summary[1].last_stable_rate # None =>
              /\ summary[1].recommended_rate[1] =
                    (4 * summary[1].last_stable_rate[1]) \div 5
              /\ summary[1].recommended_rate[1] <= summary[1].last_stable_rate[1]

\* A summary whose last stable rate is not a multiple of 5.
C10_Witness ==
    /\ Returned
    /\ summary[1].last_stable_rate = Some(7)
    /\ summary[1].recommended_rate = Some(5)

----------------------------------------------------------------------------
(* Claims about the step loop of run_benchmark_suite, checked under Spec *)

StopSet == {"Break", "RateLimited", "Blocked", "Hung"}

\* C1: the steps of a URL are recorded in rate order; a step classified
\* Break, RateLimited, Blocked or Hung ends the loop as soon as it is
\* recorded, so no step is ever recorded after one, and a step classified Ok,
\* Warning or Gone that is not the last rate is followed by the iteration of
\* the next rate (after the cooldown, if any).
C1_StopsOnBreakOnly ==
    /\ [](\A k \in 1..(Len(analyses) - 1) : analyses[k].status \notin StopSet)
    /\ [][ /\ ( pc = "wait" /\ Len(results') = Len(results) + 1 ) =>
               LET n == Len(results')
                   a == analyses'[n]
               IN  /\ Len(analyses') = n
                   /\ n = i
                   /\ results'[n].target_rate = rates[n]
                   /\ a.status \in StopSet => pc' = "summary"
                   /\ (a.status \notin StopSet /\ n < Len(rates)) =>
                         \/ pc' = "step" /\ i' = n + 1
                         \/ pc' = "cooldown" /\ i' = n
           /\ (pc = "cooldown" /\ pc' # pc) => (pc' = "step" /\ i' = i + 1)
       ]_vars

\* A Gone step was followed by the next rate, whose step stopped the loop
\* before the last rate.
C1_Witness ==
    /\ pc = "summary"
    /\ Len(rates) = 3
    /\ Len(analyses) = 2
    /\ analyses[1].status = "Gone"
    /\ analyses[2].status \in StopSet
    /\ results[2].target_rate = rates[2]

\* C7: the sequences recorded by the step loop for one URL hold at most one
\* classification of the set {Break, RateLimited, Blocked, Hung, Gone}.
C7_AtMostOneTerminal ==
    Cardinality({ k \in 1..Len(analyses) : analyses[k].status \in TerminalSet }) <= 1


----------------------------------------------------------------------------
(* Claims about generate_rates, checked under SpecRates *)

StrictlyIncreasing(rs) == \A k \in 2..Len(rs) : rs[k - 1] < rs[k]

\* C11: in Linear mode with step > 0 and start_rate <= max_rate, over the
\* whole range of the unsigned values, generate_rates terminates without a
\* panic and returns a strictly increasing sequence that starts at start_rate,
\* never exceeds max_rate and has (max_rate - start_rate) / step + 1 elements
\* (integer division): at no point has it pushed more than that many rates.
C11_LinearRates ==
    LET rp == config.ramping
        n  == (rp.max_rate - rp.start_rate) \div rp.step + 1
    IN  (pc = "rates" /\ rp.mode = "Linear" /\ rp.step > 0
            /\ rp.start_rate <= rp.max_rate) =>
            /\ gen[1].status # "panicked"
            /\ Len(gen[1].rates) <= n
            /\ StrictlyIncreasing(gen[1].rates)
            /\ \A k \in 1..Len(gen[1].rates) : gen[1].rates[k] <= rp.max_rate
            /\ gen[1].status = "returned" =>
                  Len(gen[1].rates) = n /\ gen[1].rates[1] = rp.start_rate

\* C12: in Exponential mode generate_rates terminates for every start_rate and
\* max_rate, start_rate = 0 included, without a panic, and every element after
\* the first is exactly double the previous one.
C12_ExponentialRates ==
    (pc = "rates" /\ config.ramping.mode = "Exponential") =>
        /\ gen[1].status # "panicked"
        /\ Len(gen[1].rates) <= RateModulus
        /\ \A k \in 2..Len(gen[1].rates) :
              gen[1].rates[k] = 2 * gen[1].rates[k - 1]

\* C13: in Linear mode with step = 0 generate_rates does not loop for ever: it
\* returns the single-element sequence <<start_rate>> when start_rate <=
\* max_rate and the empty sequence otherwise, so it never holds more rates
\* than that.
C13_LinearStepZero ==
    LET rp == config.ramping
        expected == IF rp.start_rate <= rp.max_rate
                    THEN <<rp.start_rate>> ELSE << >>
    IN  (pc = "rates" /\ rp.mode = "Linear" /\ rp.step = 0) =>
            /\ Len(gen[1].rates) <= Len(expected)
            /\ gen[1].status = "returned" => gen[1].rates = expected


----------------------------------------------------------------------------
(* Claims about the processes of a run, checked under Spec *)

LastOp == IF trace = << >> THEN "none" ELSE trace[Len(trace)].op

Spawns == {"spawn", "warmup_spawn"}

\* C14: when the generated rate sequence is empty, run_benchmark_suite fails
\* before any external process is started: from then on no warmup and no
\* step has been spawned or attempted for any URL, and no summary exists.
C14_EmptyRatesFailFirst ==
    (pc # "start" /\ rates = << >>) =>
        /\ pc = "failed"
        /\ trace = << >>
        /\ live = 0
    /\ output = None
        /\ results = << >>
        /\ summary = None
        /\ all_url_results = << >>

\* start_rate > max_rate, and the run has failed.
C14_Witness ==
    /\ pc = "failed"
    /\ config.ramping.start_rate > config.ramping.max_rate
    /\ config.warmup_seconds > 0

\* C15: a failed spawn of a step's process records nothing for the step (no
\* result, hung or not, and no classification), leaves the results of the
\* earlier steps of the URL as they are and ends the step loop; the entry of
\* the URL then holds exactly those results and the summary computed from
\* them.
C15_SpawnFailureKeepsResults ==
    [][ /\ (trace' # trace /\ trace'[Len(trace')].op = "spawn_failed") =>
              /\ pc = "step"
              /\ results' = results
              /\ analyses' = analyses
              /\ pc' = "summary"
        /\ (pc = "summary" /\ pc' # pc /\ LastOp = "spawn_failed") =>
              LET e == all_url_results'[Len(all_url_results')]
              IN  /\ Len(all_url_results') = Len(all_url_results) + 1
                  /\ e.results = results
                  /\ e.analyses = analyses
                  /\ Len(e.results) = trace[Len(trace)].step - 1
                  /\ \A k \in 1..Len(e.results) : ~e.results[k].hung
                  /\ \E agg \in AggregatedOrders(results) :
                        e.summary = generate_summary(results, analyses,
                                        config.ramping.duration_seconds, agg)
      ]_vars

\* The spawn of the second step failed and the URL has its entry, with the
\* result of the first step.
C15_Witness ==
    /\ pc = "url"
    /\ LastOp = "spawn_failed"
    /\ trace[Len(trace)].step = 2
    /\ Len(all_url_results[Len(all_url_results)].results) = 1

\* C16: once the spawn of a step's process has failed, the run starts no
\* further external process: no step of a later rate and no warmup or step of
\* a later URL.
C16_SpawnFailureEndsRun ==
    \A j \in 1..Len(trace) : \A k \in (j + 1)..Len(trace) :
        trace[j].op = "spawn_failed" => trace[k].op \notin Spawns

\* The events appended to trace by the step being taken.
NewOps == [k \in 1..(Len(trace') - Len(trace)) |-> trace'[Len(trace) + k].op]

\* C17: a step's process that has not exited within duration_seconds + 30
\* seconds is killed and then reaped before run_benchmark returns, its output
\* is neither read nor parsed, and the result is exactly the synthetic one
\* (target_rate = rate, hung = true, error_rate = 100, every other field at
\* its default); a process that exits within the bound is read and parsed and
\* its result has hung = false, so hung is true in no other result.
C17_HungIffTimeout ==
    /\ [][ (pc = "wait" /\ Len(results') = Len(results) + 1) =>
              LET r       == results'[Len(results')]
                  exit_at == trace[Len(trace)].t
                  bound   == config.ramping.duration_seconds
                                 + HANG_TIMEOUT_GRACE_SECONDS
              IN  /\ LastOp = "spawn"
                  /\ live' = live - 1
                  /\ IF exit_at > bound
                     THEN /\ NewOps = <<"timeout", "kill", "reap">>
                          /\ r = [DefaultResult EXCEPT !.target_rate = rates[i],
                                                       !.hung = TRUE,
                                                       !.error_rate = 100]
                     ELSE /\ NewOps = <<"exit", "read", "parse">>
                          /\ ~r.hung
         ]_vars
    /\ [](\A k \in 1..Len(results) :
             results[k].hung =>
                 results[k] = [DefaultResult EXCEPT
                                  !.target_rate = rates[k], !.hung = TRUE,
                                  !.error_rate = 100])

\* The process of the second step outlived the bound and was killed and
\* reaped; the one of the first step exited inside it.
C17_Witness ==
    /\ Len(results) = 2
    /\ results[2].hung
    /\ ~results[1].hung
    /\ LastOp = "reap"
    /\ trace[Len(trace) - 3].op = "spawn"
    /\ trace[Len(trace) - 3].t >
          config.ramping.duration_seconds + HANG_TIMEOUT_GRACE_SECONDS
    /\ live = 0
    /\ output = None

\* C18: at every moment at most one external process of the run is alive.
C18_AtMostOneAlive == live <= 1

\* C19: with cooldown_seconds > 0 the step loop sleeps after a step exactly
\* when the step was recorded, did not stop the loop and is not the last rate;
\* with cooldown_seconds = 0 it never sleeps; a sleep is entered only from a
\* recorded step, and the process of the next rate is spawned (or its spawn
\* attempted) only after the sleep has ended.
C19_CooldownBetweenSteps ==
    /\ [][ /\ (pc = "wait" /\ pc' # pc) =>
                (pc' = "cooldown" <=>
                    /\ config.cooldown_seconds > 0
                    /\ Len(results') = Len(results) + 1
                    /\ analyses'[Len(analyses')].status \notin StopSet
                    /\ i < Len(rates))
           /\ (pc' = "cooldown" /\ pc' # pc) => pc = "wait"
           /\ (pc = "cooldown" /\ pc' # pc) =>
                /\ pc' = "step"
                /\ i' = i + 1
                /\ trace' = Append(trace, Event("sleep", url_idx, i, 0))
         ]_vars
    /\ [](\A k \in 1..Len(trace) :
            /\ trace[k].op = "sleep" =>
                  /\ config.cooldown_seconds > 0
                  /\ trace[k].step < Len(rates)
                  /\ trace[k - 1] = Event("parse", trace[k].url, trace[k].step, 0)
            /\ (trace[k].op \in {"spawn", "spawn_failed"} /\ trace[k].step > 1) =>
                  IF config.cooldown_seconds > 0
                  THEN trace[k - 1] =
                          Event("sleep", trace[k].url, trace[k].step - 1, 0)
                  ELSE trace[k - 1] =
                          Event("parse", trace[k].url, trace[k].step - 1, 0))

\* A cooldown separated the first step from the second, and none followed the
\* last rate.
C19_Witness ==
    /\ pc = "summary"
    /\ config.cooldown_seconds > 0
    /\ Len(rates) = 2
    /\ Len(results) = 2
    /\ analyses[2].status \notin StopSet
    /\ LastOp = "parse"
    /\ \E k \in 1..Len(trace) : trace[k].op = "sleep" /\ trace[k + 1].op = "spawn"


----------------------------------------------------------------------------
(* Claims about parse_oha_output, checked under SpecParse *)

RECURSIVE SumCounts(_)
SumCounts(lines) ==
    IF lines = << >> THEN 0 ELSE Head(lines)[2] + SumCounts(Tail(lines))

RECURSIVE SumSeq(_)
SumSeq(counts) ==
    IF counts = << >> THEN 0 ELSE Head(counts) + SumSeq(Tail(counts))

OutsideOkRange(lines) == SelectSeq(lines, LAMBDA l : l[1] < 200 \/ l[1] >= 400)

Occurrences(seq, e) == Cardinality({ k \in 1..Len(seq) : seq[k] = e })

SameEntries(a, b) ==
    /\ Len(a) = Len(b)
    /\ \A k \in 1..Len(a) : Occurrences(a, a[k]) = Occurrences(b, a[k])

\* What the claim says of errors and error_status_codes: errors is the sum of
\* the counts of the codes outside [200, 400) plus the transport-level
\* errors, error_status_codes holds exactly the entries of those codes and
\* nothing for the transport-level errors, and errors <= total_requests.
ErrorsAddUp ==
    LET out == output[1] IN
        /\ result.errors =
              SumCounts(OutsideOkRange(out.status_lines)) + SumSeq(out.error_lines)
        /\ SameEntries(result.error_status_codes, OutsideOkRange(out.status_lines))
        /\ result.errors <= result.total_requests

\* The claim as stated (C20): for every parsed output total_requests is the
\* sum of all status-code counts plus the sum of the transport-level error
\* counts, and errors and error_status_codes are as in ErrorsAddUp.
C20_CountsAddUp ==
    pc \in {"parsed", "classified"} =>
        /\ result.total_requests =
              SumCounts(output[1].status_lines) + SumSeq(output[1].error_lines)
        /\ ErrorsAddUp

\* C20, amended: total_requests is the sum of all status-code counts plus the
\* sum of the transport-level error counts, unless that sum is 0 and
\* actual_rate > 0, in which case it is the estimate actual_rate *
\* duration_seconds without its fraction; errors and error_status_codes are
\* as in ErrorsAddUp.
C20_CountsAddUpUnlessEstimated ==
    pc \in {"parsed", "classified"} =>
        LET counted == SumCounts(output[1].status_lines)
                           + SumSeq(output[1].error_lines)
        IN  /\ result.total_requests =
                  IF counted = 0 /\ result.actual_rate > 0
                  THEN (result.actual_rate * config.ramping.duration_seconds)
                           \div 100
                  ELSE counted
            /\ ErrorsAddUp

\* An output with responses inside and outside [200, 400) and with
\* transport-level errors has been parsed.
C20_Witness ==
    /\ pc = "parsed"
    /\ \E k \in 1..Len(output[1].status_lines) :
          output[1].status_lines[k][1] = 200 /\ output[1].status_lines[k][2] > 0
    /\ result.error_status_codes # << >>
    /\ result.errors > SumCounts(result.error_status_codes)
    /\ result.total_requests > result.errors

Parsed == pc \in {"parsed", "classified"}

\* The counts recovered from the text, and the error rates they and the
\* success rate give (in hundredths of a percent).
CountedRequests ==
    SumCounts(output[1].status_lines) + SumSeq(output[1].error_lines)

CountedErrors ==
    SumCounts(OutsideOkRange(output[1].status_lines)) + SumSeq(output[1].error_lines)

RateFromCounts == (CountedErrors * 10000) \div CountedRequests

ProvisionalRate ==
    IF output[1].success_rate = None THEN 0 ELSE 10000 - output[1].success_rate[1]

\* C21: after parsing, when total_requests > 0 and errors > 0 error_rate is
\* errors / total_requests * 100 from the counts, whatever the success rate
\* said; otherwise error_rate is the provisional 100 - success rate, or 0
\* when the text has no success rate.
C21_ErrorRateFromCounts ==
    Parsed =>
        /\ (result.total_requests > 0 /\ result.errors > 0) =>
              /\ CountedRequests = result.total_requests
              /\ result.error_rate = RateFromCounts
        /\ ~(result.total_requests > 0 /\ result.errors > 0) =>
              result.error_rate = ProvisionalRate

\* The success rate said 7.5 percent of errors and the counts give another
\* rate, which is the one of the result.
C21_Witness ==
    /\ Parsed
    /\ output[1].success_rate = Some(9250)
    /\ result.errors > 0
    /\ result.total_requests > result.errors
    /\ result.error_rate # 750
    /\ result.error_rate = RateFromCounts

C23_EstimateRounded ==
    (Parsed /\ CountedRequests = 0) =>
        result.total_requests =
            IF result.actual_rate > 0
            THEN (2 * result.actual_rate * config.ramping.duration_seconds + 100)
                     \div 200
            ELSE 0

\* C23, amended: when no count was recovered and actual_rate > 0
\* total_requests is actual_rate * duration_seconds with its fraction
\* dropped; with actual_rate = 0 it stays 0.
C23_EstimateTruncated ==
    (Parsed /\ CountedRequests = 0) =>
        LET product == result.actual_rate * config.ramping.duration_seconds
        IN  /\ result.actual_rate > 0 =>
                  /\ result.total_requests * 100 <= product
                  /\ product < (result.total_requests + 1) * 100
            /\ result.actual_rate = 0 => result.total_requests = 0

\* 9.99 requests per second over 30 seconds, 299.7, were estimated as 299.
C23_Witness ==
    /\ Parsed
    /\ CountedRequests = 0
    /\ result.actual_rate = 999
    /\ config.ramping.duration_seconds = 30
    /\ result.total_requests = 299


----------------------------------------------------------------------------
(* Claims about the summary of a run, checked under Spec *)

\* The (code, count) entries of all the steps, one list after the other.
RECURSIVE AllCodeEntries(_)
AllCodeEntries(rs) ==
    IF rs = << >> THEN << >>
    ELSE Head(rs).error_status_codes \o AllCodeEntries(Tail(rs))

RECURSIVE SumOfCode(_, _)
SumOfCode(entries, code) ==
    IF entries = << >> THEN 0
    ELSE SumOfCode(Tail(entries), code)
            + (IF Head(entries)[1] = code THEN Head(entries)[2] ELSE 0)

\* C24: aggregated_error_codes of a summary holds each error status code of
\* any step of the URL exactly once, the steps after the first terminal one
\* included, with the sum of the counts of that code over all the steps, in
\* non-increasing order of count.
C24_AggregatedCodes ==
    \A u \in 1..Len(all_url_results) :
        LET agg     == all_url_results[u].summary.aggregated_error_codes
            entries == AllCodeEntries(all_url_results[u].results)
        IN  /\ { agg[k][1] : k \in 1..Len(agg) }
                  = { entries[k][1] : k \in 1..Len(entries) }
            /\ \A j, k \in 1..Len(agg) : j # k => agg[j][1] # agg[k][1]
            /\ \A k \in 1..Len(agg) : agg[k][2] = SumOfCode(entries, agg[k][1])
            /\ \A k \in 1..(Len(agg) - 1) : agg[k][2] >= agg[k + 1][2]

\* Three steps with codes 500 (3 responses), 502 (3, a step without
\* responses, terminal for the summary) and 500 (50): 500 stands first with
\* 53 and 502 follows with 3.
C24_Witness ==
    /\ Len(all_url_results) = 1
    /\ Len(all_url_results[1].analyses) = 3
    /\ all_url_results[1].analyses[2].status = "Gone"
    /\ all_url_results[1].summary.aggregated_error_codes
          = << <<500, 53>>, <<502, 3>> >>

\* C25: a step that timed out is recorded with the synthetic hung result and
\* classified Hung, it is the last step of its URL, and the summary of the
\* URL has the rate of the hung step as breaking_point_rate, Hung as
\* break_reason and the rate of the step before it as last_stable_rate (none
\* when the hung step is the first).
C25_HangEndsUrlGracefully ==
    \A u \in 1..Len(all_url_results) :
        LET e == all_url_results[u] IN
        \A h \in 1..Len(e.results) :
            e.results[h].hung =>
                /\ e.analyses[h].status = "Hung"
                /\ h = Len(e.results)
                /\ e.summary.breaking_point_rate = Some(e.results[h].target_rate)
                /\ e.summary.break_reason = BreakReason("Hung", 0)
                /\ e.summary.last_stable_rate =
                      IF h > 1 THEN Some(e.results[h - 1].target_rate) ELSE None

\* C26: results and analyses of the step loop have the same length, the
\* result at position k has the k-th generated rate as its target_rate, and
\* the two sequences change only by one element appended to each at a time
\* (or by starting empty for the next URL).
C26_RecordedPrefixOfRates ==
    /\ [](/\ Len(results) = Len(analyses)
          /\ Len(results) <= Len(rates)
          /\ \A k \in 1..Len(results) : results[k].target_rate = rates[k])
    /\ [][ (results' # results \/ analyses' # analyses) =>
              \/ /\ Len(results') = Len(results) + 1
                 /\ SubSeq(results', 1, Len(results)) = results
                 /\ Len(analyses') = Len(analyses) + 1
                 /\ SubSeq(analyses', 1, Len(analyses)) = analyses
                 /\ i = Len(results')
              \/ /\ pc \in {"url", "warmup"}
                 /\ pc' = "step"
                 /\ results' = << >>
                 /\ analyses' = << >>
         ]_vars

\* Three steps were recorded for three rates, the last one a hung step.
C26_Witness ==
    /\ Len(rates) = 3
    /\ Len(results) = 3
    /\ results[3].hung
    /\ results[3].target_rate = rates[3]
    /\ url_idx = 2

\* C27: in the summary of a run, when breaking_point_rate and
\* last_stable_rate are both present, last_stable_rate and recommended_rate
\* are below breaking_point_rate.
C27_StableBelowBreakingPoint ==
    \A u \in 1..Len(all_url_results) :
        LET sm == all_url_results[u].summary IN
        (sm.breaking_point_rate # None /\ sm.last_stable_rate # None) =>
            /\ sm.last_stable_rate[1] < sm.breaking_point_rate[1]
            /\ sm.recommended_rate # None
            /\ sm.recommended_rate[1] < sm.breaking_point_rate[1]

WarmupOps == {"warmup_spawn", "warmup_spawn_failed", "warmup_exit", "warmup_failed"}

WarmupFailures == {"warmup_spawn_failed", "warmup_failed"}

\* C28: when the warmup of a URL fails (its process cannot be run, or exits
\* with a status other than success), no step of that URL is spawned or
\* attempted and the URL gets no entry in all_url_results, and the URL loop
\* goes on with the next URL; with warmup_seconds = 0 no warmup process is
\* started.
C28_FailedWarmupSkipsUrl ==
    /\ [](/\ config.warmup_seconds = 0 =>
                \A k \in 1..Len(trace) : trace[k].op \notin WarmupOps
          /\ \A k \in 1..Len(trace) :
                trace[k].op \in WarmupFailures =>
                    /\ \A j \in 1..Len(trace) :
                          trace[j].url = trace[k].url => trace[j].op \in WarmupOps
                    /\ \A u \in 1..Len(all_url_results) :
                          all_url_results[u].url # trace[k].url)
    /\ [][ (trace' # trace /\ trace'[Len(trace')].op \in WarmupFailures) =>
              /\ config.warmup_seconds > 0
              /\ url_idx' = url_idx + 1
              /\ pc' = "url"
              /\ all_url_results' = all_url_results
         ]_vars

\* The warmup of the first URL failed; the second URL ran its steps and has
\* its entry.
C28_Witness ==
    /\ config.urls = 2
    /\ pc = "done"
    /\ trace[1].op = "warmup_spawn"
    /\ trace[2].op = "warmup_failed"
    /\ Len(all_url_results) = 1
    /\ all_url_results[1].url = 2
    /\ Len(all_url_results[1].results) = 2


----------------------------------------------------------------------------
(* Claims about the parser and the classifier together, under SpecParse *)

Classified == pc = "classified"

\* C29: a step whose output holds none of the expected fields, so that the
\* parsed result has every numeric field at zero and no error code, with
\* target_rate > 0, is classified Break with ThroughputDegradation(0), a
\* classification that stops the step loop; never Ok, Warning or Gone.
C29_ParseGapBreaks ==
    (/\ Classified
     /\ result.target_rate > 0
     /\ result = [DefaultResult EXCEPT !.target_rate = result.target_rate]) =>
        /\ analysis[1] =
              AnalysisResult("Break", BreakReason("ThroughputDegradation", 0))
        /\ should_break(analysis[1].status)

\* An output without any of the lines was parsed and classified.
C29_Witness ==
    /\ Classified
    /\ output[1] = OhaOutput(None, None, NoLatencies, << >>, << >>)
    /\ result.target_rate > 0
    /\ analysis[1].status = "Break"

WithCount(entries, c) == SelectSeq(entries, LAMBDA e : e[2] = c)

\* C30: error_status_codes of a parsed result is in non-increasing order of
\* count, entries of equal count in the order of the text; so when the result
\* is classified RateLimited (Blocked), no error status code of the result
\* has a count above the count of 429 (403).
C30_DominantCodeHasTopCount ==
    Parsed =>
        LET codes == result.error_status_codes
            text  == OutsideOkRange(output[1].status_lines)
            top(code) ==
                \E j \in 1..Len(codes) :
                    /\ codes[j][1] = code
                    /\ \A k \in 1..Len(codes) : codes[k][2] <= codes[j][2]
        IN  /\ \A k \in 1..(Len(codes) - 1) : codes[k][2] >= codes[k + 1][2]
            /\ \A c \in 0..2 : WithCount(codes, c) = WithCount(text, c)
            /\ \A k \in 1..Len(codes) : codes[k][2] \in 0..2
            /\ (Classified /\ analysis[1].status = "RateLimited") => top(429)
            /\ (Classified /\ analysis[1].status = "Blocked") => top(403)

\* 429 came second in the text with the larger count and the result is
\* classified RateLimited.
C30_Witness ==
    /\ Classified
    /\ output[1].status_lines = << <<403, 1>>, <<429, 2>> >>
    /\ result.error_status_codes = << <<429, 2>>, <<403, 1>> >>
    /\ analysis[1].status = "RateLimited"

====
